---- MODULE Spec2Model ----
(***************************************************************************)
(* Model of backend/src/main.rs: a single-threaded TCP server that routes  *)
(* a hand-parsed HTTP request to one of five CRUD handlers over the        *)
(* PostgreSQL table users(id SERIAL PRIMARY KEY, name, email).             *)
(*                                                                         *)
(* Text is modelled as a sequence of one-character strings, so that        *)
(* starts_with, split and parse are computed character by character.  A    *)
(* request is [head, parts]: head is the text up to the first blank line   *)
(* (CRLF CRLF) and parts are the sections that follow each blank line,     *)
(* each one a JSON document given by its structure.                        *)
(***************************************************************************)
EXTENDS Integers, Sequences, FiniteSets, TLC

\* ------------------------------------------------------------------ bounds

\* Creates are accepted while the SERIAL sequence is at most MaxId.
MaxId == 3

\* ------------------------------------------------------------- status lines

OK_RESPONSE == "HTTP/1.1 200 OK"
NOT_FOUND == "HTTP/1.1 404 NOT FOUND"
INTERNAL_ERROR == "HTTP/1.1 500 INTERNAL ERROR"
\* No bytes written: the read failed or the handler panicked.
NO_RESPONSE == "none"

\* --------------------------------------------------------------------- text

Whitespace == {" ", "\r", "\n", "\t"}
Digits == <<"0", "1", "2", "3", "4", "5", "6", "7", "8", "9">>
I32_MAX == 2147483647
I32_MIN == -2147483647 - 1

\* str::starts_with
starts_with(s, p) == Len(s) >= Len(p) /\ SubSeq(s, 1, Len(p)) = p

\* Length of the longest prefix of s that holds no character of stop.
RECURSIVE SpanUntil(_, _)
SpanUntil(s, stop) ==
    IF s = <<>> \/ Head(s) \in stop THEN 0 ELSE 1 + SpanUntil(Tail(s), stop)

\* str::split(sep) for a one-character separator: every segment, empty ones too.
RECURSIVE split(_, _)
split(s, sep) ==
    LET n == SpanUntil(s, {sep})
    IN  IF n = Len(s) THEN <<s>>
        ELSE <<SubSeq(s, 1, n)>> \o split(SubSeq(s, n + 2, Len(s)), sep)

\* Iterator::nth(n).unwrap_or_default(): n counts from 0, "" when absent.
nth_or_default(segs, n) == IF n + 1 <= Len(segs) THEN segs[n + 1] ELSE <<>>

\* Length of the leading run of whitespace.
RECURSIVE SpanWhile(_, _)
SpanWhile(s, keep) ==
    IF s = <<>> \/ Head(s) \notin keep THEN 0 ELSE 1 + SpanWhile(Tail(s), keep)

\* str::split_whitespace().next().unwrap_or_default(): the first token, or "".
first_token(s) ==
    LET rest == SubSeq(s, SpanWhile(s, Whitespace) + 1, Len(s))
    IN  SubSeq(rest, 1, SpanUntil(rest, Whitespace))

DigitValue(c) == (CHOOSE i \in 1..10 : Digits[i] = c) - 1
IsDigit(c) == \E i \in 1..10 : Digits[i] = c

\* i32::checked_mul(10), checked_add, checked_sub: "overflow" outside the i32 range.
RECURSIVE AccumulateI32(_, _, _)
AccumulateI32(s, acc, negative) ==
    IF s = <<>> THEN [ok |-> TRUE, v |-> acc]
    ELSE IF ~IsDigit(Head(s)) THEN [ok |-> FALSE, v |-> 0]
    ELSE IF acc > I32_MAX \div 10 \/ acc < -(I32_MAX \div 10) THEN [ok |-> FALSE, v |-> 0]
    ELSE LET d == DigitValue(Head(s))
             m == acc * 10
         IN  IF negative
             THEN IF m < I32_MIN + d THEN [ok |-> FALSE, v |-> 0]
                  ELSE AccumulateI32(Tail(s), m - d, negative)
             ELSE IF m > I32_MAX - d THEN [ok |-> FALSE, v |-> 0]
                  ELSE AccumulateI32(Tail(s), m + d, negative)

\* str::parse::<i32>(): an optional sign, then at least one decimal digit.
parse_i32(s) ==
    IF s = <<>> THEN [ok |-> FALSE, v |-> 0]
    ELSE IF Head(s) \in {"+", "-"}
         THEN IF Len(s) = 1 THEN [ok |-> FALSE, v |-> 0]
              ELSE AccumulateI32(Tail(s), 0, Head(s) = "-")
         ELSE AccumulateI32(s, 0, FALSE)

\* ------------------------------------------------------------- JSON values

JStr(s) == [t |-> "str", s |-> s]
JInt(n) == [t |-> "int", n |-> n]
JNull == [t |-> "null"]

\* A JSON object, by its members; a text that is not JSON at all.
JObject(members) == [kind |-> "object", fields |-> members]
JArray(items) == [kind |-> "array", items |-> items]
NotJson == [kind |-> "malformed"]
\* A plain-text response body.
Text(s) == [kind |-> "text", s |-> s]

\* Option<i32>: None is <<>>, Some(n) is <<n>>.
None == <<>>
Some(n) == <<n>>

\* struct User
User(id, name, email) == [id |-> id, name |-> name, email |-> email]

\* #[derive(Deserialize)] for User: name and email are required strings, id is
\* an optional integer (absent or null gives None), other members are ignored.
DeserializeUser(doc) ==
    IF doc.kind # "object" THEN [ok |-> FALSE]
    ELSE LET f == doc.fields
             has(k) == k \in DOMAIN f
             idOk == ~has("id") \/ f["id"].t \in {"int", "null"}
         IN  IF has("name") /\ has("email") /\ idOk
                /\ f["name"].t = "str" /\ f["email"].t = "str"
             THEN [ok |-> TRUE,
                   user |-> User(IF has("id") /\ f["id"].t = "int"
                                 THEN Some(f["id"].n) ELSE None,
                                 f["name"].s, f["email"].s)]
             ELSE [ok |-> FALSE]

\* #[derive(Serialize)] for User, through serde_json::to_string.
SerializeUser(u) ==
    JObject([id |-> IF u.id = None THEN JNull ELSE JInt(u.id[1]),
             name |-> JStr(u.name), email |-> JStr(u.email)])

\* ------------------------------------------------------------------ requests

CRLFCRLF == <<"\r", "\n", "\r", "\n">>
HTTP11 == <<" ", "H", "T", "T", "P", "/", "1", ".", "1">>

\* The literal prefixes the router tests, in the order it tests them.
OPTIONS_PREFIX == <<"O", "P", "T", "I", "O", "N", "S">>
POST_PREFIX == <<"P", "O", "S", "T", " ", "/", "a", "p", "i", "/", "r", "u", "s", "t", "/", "u", "s", "e", "r", "s">>
GET_ONE_PREFIX == <<"G", "E", "T", " ", "/", "a", "p", "i", "/", "r", "u", "s", "t", "/", "u", "s", "e", "r", "s", "/">>
GET_ALL_PREFIX == <<"G", "E", "T", " ", "/", "a", "p", "i", "/", "r", "u", "s", "t", "/", "u", "s", "e", "r", "s">>
PUT_PREFIX == <<"P", "U", "T", " ", "/", "a", "p", "i", "/", "r", "u", "s", "t", "/", "u", "s", "e", "r", "s", "/">>
DELETE_PREFIX == <<"D", "E", "L", "E", "T", "E", " ", "/", "a", "p", "i", "/", "r", "u", "s", "t", "/", "u", "s", "e", "r", "s", "/">>

Request(head, parts) == [head |-> head, parts |-> parts]
NoRequest == Request(<<>>, <<>>)

\* The request text as far as it is made of characters: the head and the blank
\* line that ends it.  The sections after it are JSON documents (or a text that
\* is no JSON), none of which begins with a sign or a digit.
Wire(request) ==
    IF request.parts = <<>> THEN request.head ELSE request.head \o CRLFCRLF

\* The bodies sent.
Ann == JObject([name |-> JStr("Ann"), email |-> JStr("a@x.com")])
Bob == JObject([name |-> JStr("Bob"), email |-> JStr("b@x.com")])
BobWithId == JObject([id |-> JInt(1), name |-> JStr("Bob"), email |-> JStr("b@x.com")])
NoEmail == JObject([name |-> JStr("Ann")])
Bodies == {<<>>, <<Ann>>, <<Bob>>, <<BobWithId>>, <<NoEmail>>, <<NotJson>>, <<NotJson, Ann>>}

\* The trailing path segments sent: every id the table can hold, an id it never
\* holds, a word, nothing, and a number one above i32::MAX.
IdTexts ==
    {<<Digits[i + 1]>> : i \in 1..MaxId}
        \cup {<<"9", "9", "9">>, <<"a", "b", "c">>, <<>>,
              <<"2", "1", "4", "7", "4", "8", "3", "6", "4", "8">>}

Requests ==
    {Request(OPTIONS_PREFIX \o <<" ", "/">> \o HTTP11, <<>>)}
        \cup {Request(POST_PREFIX \o HTTP11, b) : b \in Bodies}
        \cup {Request(POST_PREFIX \o <<"/", "5">> \o HTTP11, b) : b \in {<<Ann>>, <<NotJson>>}}
        \cup {Request(<<"P", "O", "S", "T", " ", "/", "a", "p", "i", "/", "x", "/", "u", "s", "e", "r", "s">> \o HTTP11, <<Ann>>)}
        \cup {Request(GET_ALL_PREFIX \o HTTP11, <<>>)}
        \cup {Request(GET_ONE_PREFIX \o t \o HTTP11, <<>>) : t \in IdTexts}
        \cup {Request(<<"G", "E", "T", " ", "/", "a", "p", "i", "/", "x", "/", "u", "s", "e", "r", "s", "/", "4", "2">> \o HTTP11, <<>>)}
        \cup {Request(PUT_PREFIX \o <<"1">> \o HTTP11, b) : b \in Bodies}
        \cup {Request(PUT_PREFIX \o t \o HTTP11, b) : t \in IdTexts, b \in {<<Ann>>, <<BobWithId>>}}
        \cup {Request(<<"P", "U", "T", " ", "/", "a", "p", "i", "/", "r", "u", "s", "t", "/", "u", "s", "e", "r", "s">> \o HTTP11, <<Ann>>)}
        \cup {Request(DELETE_PREFIX \o t \o HTTP11, <<>>) : t \in IdTexts}

\* ------------------------------------------------------------------- router

\* Route with the bare GET prefix tested before the longer one.
RouteGetAllFirst(request) ==
    LET r == Wire(request)
    IN  IF starts_with(r, OPTIONS_PREFIX) THEN "options"
        ELSE IF starts_with(r, POST_PREFIX) THEN "create"
        ELSE IF starts_with(r, GET_ALL_PREFIX) THEN "get_all"
        ELSE IF starts_with(r, GET_ONE_PREFIX) THEN "get_one"
        ELSE IF starts_with(r, PUT_PREFIX) THEN "update"
        ELSE IF starts_with(r, DELETE_PREFIX) THEN "delete"
        ELSE "not_found"

\* The match of handle_client: the first arm whose guard holds.
Route(request) ==
    LET r == Wire(request)
    IN  IF starts_with(r, OPTIONS_PREFIX) THEN "options"
        ELSE IF starts_with(r, POST_PREFIX) THEN "create"
        ELSE IF starts_with(r, GET_ONE_PREFIX) THEN "get_one"
        ELSE IF starts_with(r, GET_ALL_PREFIX) THEN "get_all"
        ELSE IF starts_with(r, PUT_PREFIX) THEN "update"
        ELSE IF starts_with(r, DELETE_PREFIX) THEN "delete"
        ELSE "not_found"

\* The fifth "/"-separated segment of the request, up to the first whitespace.
get_id(request) == first_token(nth_or_default(split(Wire(request), "/"), 4))

\* The text after the last blank line, decoded as a User.  A request without a
\* blank line is decoded as a whole: it begins with its method, so is no JSON.
get_user_request_body(request) ==
    IF request.parts = <<>> THEN DeserializeUser(NotJson)
    ELSE DeserializeUser(request.parts[Len(request.parts)])

\* Every request sent, with what handle_client and the handlers read off it:
\* the arm of the router's match, get_id(request).parse::<i32>() and the
\* decoded body.
Received ==
    {[request |-> req, arm |-> Route(req), id |-> parse_i32(get_id(req)),
      body |-> get_user_request_body(req)] : req \in Requests}

\* ------------------------------------------------------------------- state

VARIABLES
    users,          \* the rows of table users, a sequence of [id, name, email]
    users_id_seq,   \* the next value of the SERIAL sequence behind users.id
    alive,          \* FALSE once a handler has panicked: the process has exited
    request,        \* the request read last
    handler,        \* the arm of the router's match that request took
    db,             \* what the database did for it: [connect, stmt, reread]
    response,       \* (status_line, content) written for it
    before,         \* history: users as it was when request was read
    prev,           \* history: the exchange before this one, if a create answered OK
    deletedOk,      \* history: ids whose last delete was answered OK, not created since
    deletedBefore   \* history: deletedOk as it was when request was read

vars == <<users, users_id_seq, alive, request, handler, db, response, before, prev,
          deletedOk, deletedBefore>>

\* ---------------------------------------------------------------- database

\* One attempt of Client::connect, Client::query_one or Client::execute: the
\* statement runs ("ok"), fails before it has any effect ("fail"), or is never
\* attempted ("unused").
Db(connect, stmt, reread) == [connect |-> connect, stmt |-> stmt, reread |-> reread]

\* InsertUser with $1 and $2 bound the other way round.
InsertUserSwapped(table, id, user) ==
    Append(table, [id |-> id, name |-> user.email, email |-> user.name])

\* INSERT INTO users (name, email) VALUES ($1, $2) RETURNING id
InsertUser(table, id, user) ==
    Append(table, [id |-> id, name |-> user.name, email |-> user.email])

\* SELECT ... FROM users WHERE id = $1
SelectById(table, id) == SelectSeq(table, LAMBDA row : row.id = id)

\* UpdateById without its WHERE clause.
UpdateEveryRow(table, id, user) ==
    [i \in DOMAIN table |-> [table[i] EXCEPT !.name = user.name, !.email = user.email]]

\* UpdateById as an upsert: a row is inserted when none has the id.
UpdateOrInsertById(table, id, user) ==
    IF \E i \in DOMAIN table : table[i].id = id
    THEN [i \in DOMAIN table |->
             IF table[i].id = id
             THEN [table[i] EXCEPT !.name = user.name, !.email = user.email]
             ELSE table[i]]
    ELSE Append(table, [id |-> id, name |-> user.name, email |-> user.email])

\* UPDATE users SET name = $1, email = $2 WHERE id = $3
UpdateById(table, id, user) ==
    [i \in DOMAIN table |->
        IF table[i].id = id
        THEN [table[i] EXCEPT !.name = user.name, !.email = user.email]
        ELSE table[i]]

\* DELETE FROM users WHERE id = $1
DeleteById(table, id) == SelectSeq(table, LAMBDA row : row.id # id)

\* Client::query_one: Ok only when the statement ran and gave exactly one row.
query_one(outcome, rows) == outcome = "ok" /\ Len(rows) = 1

\* ----------------------------------------------------------------- handlers

\* What a handler leaves behind: the pair it returns and the database state.
Reply(status, content, table, seq) ==
    [status |-> status, content |-> content, users |-> table, seq |-> seq,
     panicked |-> FALSE]

\* Result::unwrap on an Err: the thread, here the only one, panics.
Panic(table, seq) ==
    [status |-> NO_RESPONSE, content |-> Text(""), users |-> table, seq |-> seq,
     panicked |-> TRUE]

InternalError == Reply(INTERNAL_ERROR, Text("Internal error"), users, users_id_seq)

handle_post_request(req, d) ==
    LET body == req.body
    IN  IF ~(body.ok /\ d.connect = "ok") THEN InternalError
        ELSE IF d.stmt # "ok" THEN Panic(users, users_id_seq)
        ELSE LET user_id == users_id_seq
                 table == InsertUser(users, user_id, body.user)
                 rows == SelectById(table, user_id)
             IN  IF query_one(d.reread, rows)
                 THEN Reply(OK_RESPONSE,
                            SerializeUser(User(Some(rows[1].id), rows[1].name, rows[1].email)),
                            table, users_id_seq + 1)
                 ELSE Reply(INTERNAL_ERROR, Text("Failed to retrieve created user"),
                            table, users_id_seq + 1)

\* handle_get_request with every Err of query_one reported as INTERNAL_ERROR.
handle_get_request_err_is_500(req, d) ==
    LET id == req.id
    IN  IF ~(id.ok /\ d.connect = "ok") THEN InternalError
        ELSE LET rows == SelectById(users, id.v)
             IN  IF query_one(d.stmt, rows)
                 THEN Reply(OK_RESPONSE,
                            SerializeUser(User(Some(rows[1].id), rows[1].name, rows[1].email)),
                            users, users_id_seq)
                 ELSE InternalError

handle_get_request(req, d) ==
    LET id == req.id
    IN  IF ~(id.ok /\ d.connect = "ok") THEN InternalError
        ELSE LET rows == SelectById(users, id.v)
             IN  IF query_one(d.stmt, rows)
                 THEN Reply(OK_RESPONSE,
                            SerializeUser(User(Some(rows[1].id), rows[1].name, rows[1].email)),
                            users, users_id_seq)
                 ELSE Reply(NOT_FOUND, Text("User not found"), users, users_id_seq)

\* handle_get_all_request with an empty result reported as NOT_FOUND.
handle_get_all_request_empty_is_404(req, d, order) ==
    IF d.connect # "ok" THEN InternalError
    ELSE IF d.stmt # "ok" THEN Panic(users, users_id_seq)
    ELSE IF users = <<>> THEN Reply(NOT_FOUND, Text("User not found"), users, users_id_seq)
    ELSE Reply(OK_RESPONSE,
               JArray([i \in DOMAIN users |->
                          LET row == users[order[i]]
                          IN  SerializeUser(User(Some(row.id), row.name, row.email))]),
               users, users_id_seq)

\* order is the order in which SELECT without ORDER BY gives the rows.
handle_get_all_request(req, d, order) ==
    IF d.connect # "ok" THEN InternalError
    ELSE IF d.stmt # "ok" THEN Panic(users, users_id_seq)
    ELSE Reply(OK_RESPONSE,
               JArray([i \in DOMAIN users |->
                          LET row == users[order[i]]
                          IN  SerializeUser(User(Some(row.id), row.name, row.email))]),
               users, users_id_seq)

handle_put_request(req, d) ==
    LET id == req.id
        body == req.body
    IN  IF ~(id.ok /\ body.ok /\ d.connect = "ok") THEN InternalError
        ELSE IF d.stmt # "ok" THEN Panic(users, users_id_seq)
        ELSE Reply(OK_RESPONSE, Text("User updated"),
                   UpdateById(users, id.v, body.user), users_id_seq)

\* handle_delete_request without the test of rows_affected.
handle_delete_request_unchecked(req, d) ==
    LET id == req.id
    IN  IF ~(id.ok /\ d.connect = "ok") THEN InternalError
        ELSE IF d.stmt # "ok" THEN Panic(users, users_id_seq)
        ELSE Reply(OK_RESPONSE, Text("User deleted"), DeleteById(users, id.v), users_id_seq)

handle_delete_request(req, d) ==
    LET id == req.id
    IN  IF ~(id.ok /\ d.connect = "ok") THEN InternalError
        ELSE IF d.stmt # "ok" THEN Panic(users, users_id_seq)
        ELSE LET table == DeleteById(users, id.v)
                 rows_affected == Len(users) - Len(table)
             IN  IF rows_affected = 0
                 THEN Reply(NOT_FOUND, Text("User not found"), table, users_id_seq)
                 ELSE Reply(OK_RESPONSE, Text("User deleted"), table, users_id_seq)

\* ------------------------------------------------------------------ actions

NoResponse == [status |-> NO_RESPONSE, content |-> Text("")]
NoExchange == [request |-> NoRequest, response |-> NoResponse]

Init ==
    /\ users = <<>>
    /\ users_id_seq = 1
    /\ alive = TRUE
    /\ request = NoRequest
    /\ handler = "none"
    /\ db = Db("unused", "unused", "unused")
    /\ response = NoResponse
    /\ before = <<>>
    /\ prev = NoExchange
    /\ deletedOk = {}
    /\ deletedBefore = {}

\* The ids of the rows of table.
Ids(table) == {table[i].id : i \in DOMAIN table}

\* handle_client from the match on: req is the request as received, out is what
\* the arm taken returned.
Respond(req, arm, d, out) ==
    /\ request' = req.request
    /\ handler' = arm
    /\ db' = d
    /\ response' = [status |-> out.status, content |-> out.content]
    /\ users' = out.users
    /\ users_id_seq' = out.seq
    /\ alive' = ~out.panicked
    /\ before' = users
    /\ prev' = IF handler = "create" /\ response.status = OK_RESPONSE
               THEN [request |-> request, response |-> response]
               ELSE NoExchange
    /\ deletedBefore' = deletedOk
    /\ deletedOk' =
          LET kept == deletedOk \ (Ids(out.users) \ Ids(users))
          IN  IF arm = "delete" /\ out.status = OK_RESPONSE
              THEN kept \cup {req.id.v}
              ELSE kept

\* The database outcomes a handler can meet, in the order it meets them: it
\* always connects; stmt is its first statement, run when the connection and
\* the parsed input allow it; reread is the second statement of create.
Outcomes(inputOk, hasReread) ==
    <<Db("fail", "unused", "unused")>>
        \o IF ~inputOk THEN <<Db("ok", "unused", "unused")>>
           ELSE <<Db("ok", "fail", "unused")>>
                    \o IF hasReread THEN <<Db("ok", "ok", "fail"), Db("ok", "ok", "ok")>>
                       ELSE <<Db("ok", "ok", "unused")>>

HandleOptions(req) ==
    /\ alive /\ req.arm = "options"
    /\ Respond(req, "options", Db("unused", "unused", "unused"),
               Reply(OK_RESPONSE, Text(""), users, users_id_seq))

HandlePost(req) ==
    /\ alive /\ req.arm = "create"
    /\ users_id_seq <= MaxId
    /\ LET met == Outcomes(req.body.ok, TRUE)
       IN  \E i \in DOMAIN met :
              Respond(req, "create", met[i], handle_post_request(req, met[i]))

HandleGet(req) ==
    /\ alive /\ req.arm = "get_one"
    /\ LET met == Outcomes(req.id.ok, FALSE)
       IN  \E i \in DOMAIN met :
              Respond(req, "get_one", met[i], handle_get_request(req, met[i]))

HandleGetAll(req) ==
    /\ alive /\ req.arm = "get_all"
    /\ LET met == Outcomes(TRUE, FALSE)
       IN  \E i \in DOMAIN met, order \in Permutations(DOMAIN users) :
              Respond(req, "get_all", met[i], handle_get_all_request(req, met[i], order))

HandlePut(req) ==
    /\ alive /\ req.arm = "update"
    /\ LET met == Outcomes(req.id.ok /\ req.body.ok, FALSE)
       IN  \E i \in DOMAIN met :
              Respond(req, "update", met[i], handle_put_request(req, met[i]))

HandleDelete(req) ==
    /\ alive /\ req.arm = "delete"
    /\ LET met == Outcomes(req.id.ok, FALSE)
       IN  \E i \in DOMAIN met :
              Respond(req, "delete", met[i], handle_delete_request(req, met[i]))

HandleUnmatched(req) ==
    /\ alive /\ req.arm = "not_found"
    /\ Respond(req, "not_found", Db("unused", "unused", "unused"),
               Reply(NOT_FOUND, Text("404 not found"), users, users_id_seq))

\* stream.read gave Err: nothing is routed and nothing is written.
ReadError ==
    /\ alive
    /\ Respond([request |-> NoRequest], "none", Db("unused", "unused", "unused"),
               [status |-> NO_RESPONSE, content |-> Text(""), users |-> users,
                seq |-> users_id_seq, panicked |-> FALSE])

Next ==
    \/ \E req \in Received :
          \/ HandleOptions(req)
          \/ HandlePost(req)
          \/ HandleGet(req)
          \/ HandleGetAll(req)
          \/ HandlePut(req)
          \/ HandleDelete(req)
          \/ HandleUnmatched(req)
    \/ ReadError

Spec == Init /\ [][Next]_vars

\* ============================================================== properties

\* The request line of the request read last, read apart from the router: its
\* method, its path and the path's "/"-separated segments ("/api/x/users/42"
\* gives <<"", "api", "x", "users", "42">>).
Method == SubSeq(request.head, 1, SpanUntil(request.head, {" "}))
Path == first_token(SubSeq(request.head, Len(Method) + 1, Len(request.head)))
Segments == split(Path, "/")
GET == <<"G", "E", "T">>
POST == <<"P", "O", "S", "T">>
API == <<"a", "p", "i">>
RUST == <<"r", "u", "s", "t">>
USERS == <<"u", "s", "e", "r", "s">>

\* The id the request read last names, and whether a row of table has it.
Id == parse_i32(get_id(request))
HasRow(table, id) == \E k \in DOMAIN table : table[k].id = id

\* The name and email of a request's body (its last section), and whether
\* that body is a JSON object with a text name and a text email.
BodyOf(req) == req.parts[Len(req.parts)]
Decodable(req) ==
    /\ req.parts # <<>>
    /\ BodyOf(req).kind = "object"
    /\ {"name", "email"} \subseteq DOMAIN BodyOf(req).fields
    /\ BodyOf(req).fields.name.t = "str"
    /\ BodyOf(req).fields.email.t = "str"

\* The JSON entity of a row.
Entity(id, name, email) == JObject([id |-> JInt(id), name |-> JStr(name), email |-> JStr(email)])

Answered(status, text) == response = [status |-> status, content |-> Text(text)]
ConnectOk == db.connect = "ok"
\* The database is reachable: the connection and the handler's statement succeed.
Reachable == db.connect = "ok" /\ db.stmt = "ok"

\* ---- C1
\* A create answered OK returns the entity sent with an integer id.
C1_Created ==
    handler = "create" /\ response.status = OK_RESPONSE =>
        /\ response.content.kind = "object"
        /\ response.content.fields.id.t = "int"
        /\ response.content.fields.name = BodyOf(request).fields.name
        /\ response.content.fields.email = BodyOf(request).fields.email

\* The request read last is a get-one for the id the create just before returned.
C1_GetOfCreated ==
    /\ prev # NoExchange
    /\ handler = "get_one"
    /\ Id.ok
    /\ Id.v = prev.response.content.fields.id.n

C1_SameEntity ==
    /\ response.status = OK_RESPONSE
    /\ response.content = Entity(prev.response.content.fields.id.n,
                                 BodyOf(prev.request).fields.name.s,
                                 BodyOf(prev.request).fields.email.s)

\* C1 as stated: for every valid (name, email) and every table state, a create
\* answered OK returns an entity with a non-null integer id, and a get-one for
\* that id issued next is answered OK with the same id, name and email.
C1_Original == C1_Created /\ (C1_GetOfCreated => C1_SameEntity)

\* C1 as amended: a create answered OK returns an entity with a non-null integer
\* id, and a get-one for that id issued next is answered OK with the same id,
\* name and email whenever its database connection and its SELECT succeed; it is
\* answered INTERNAL_ERROR when the connection fails and NOT_FOUND when the
\* SELECT fails.
C1_CreateThenGet ==
    /\ C1_Created
    /\ C1_GetOfCreated =>
          /\ Reachable => C1_SameEntity
          /\ db.connect = "fail" => response.status = INTERNAL_ERROR
          /\ db.connect = "ok" /\ db.stmt = "fail" => response.status = NOT_FOUND

C1_Witness == C1_GetOfCreated /\ C1_SameEntity /\ Len(users) >= 2

\* ---- C2
\* The request line is GET /api/<s>/users/<t> with <t> not empty.
C2_GetWithTrailingSegment ==
    /\ Method = GET
    /\ Len(Segments) = 5
    /\ Segments[1] = <<>> /\ Segments[2] = API /\ Segments[4] = USERS
    /\ Segments[5] # <<>>

\* C2 as stated: every GET /api/<s>/users/<t>, whatever the middle segment <s>
\* and the non-empty trailing segment <t>, is dispatched to get-one.
C2_Original == C2_GetWithTrailingSegment => handler = "get_one"

\* C2 as amended: every GET /api/rust/users/<t> with a non-empty trailing
\* segment <t>, numeric or not, is dispatched to get-one, never to get-all and
\* never to the unmatched route.
C2_RustGetOne == C2_GetWithTrailingSegment /\ Segments[3] = RUST => handler = "get_one"

C2_Witness ==
    /\ C2_GetWithTrailingSegment /\ Segments[3] = RUST
    /\ Segments[5] = <<"a", "b", "c">>
    /\ handler = "get_one"

\* ---- C3
\* C3: a get-one whose id parses and matches no row is answered NOT_FOUND
\* "User not found", never INTERNAL_ERROR, when the connection succeeds.
C3_GetMissing ==
    handler = "get_one" /\ Id.ok /\ ~HasRow(before, Id.v) /\ ConnectOk =>
        Answered(NOT_FOUND, "User not found")

C3_Witness ==
    /\ handler = "get_one" /\ Id.ok /\ ~HasRow(before, Id.v) /\ ConnectOk
    /\ Id.v \in deletedBefore
    /\ before # <<>>
    /\ response.status = NOT_FOUND

\* ---- C4
\* The request read last is a delete of an id whose delete was answered OK
\* before (and which no create has yielded since), or of any id on an empty table.
C4_RepeatedDelete ==
    /\ handler = "delete"
    /\ Id.ok
    /\ Id.v \in deletedBefore \/ before = <<>>

\* C4 as stated: such a delete is answered NOT_FOUND "User not found" and
\* leaves the table unchanged.
C4_Original ==
    C4_RepeatedDelete => Answered(NOT_FOUND, "User not found") /\ users = before

\* C4 as amended: such a delete is never answered OK and leaves the table
\* unchanged; it is answered NOT_FOUND "User not found" whenever its database
\* connection and its DELETE succeed, and INTERNAL_ERROR when the connection fails.
C4_DeleteAgain ==
    C4_RepeatedDelete =>
        /\ users = before
        /\ response.status # OK_RESPONSE
        /\ Reachable => Answered(NOT_FOUND, "User not found")
        /\ db.connect = "fail" => response.status = INTERNAL_ERROR

\* A second repeat: the delete before this one was already answered NOT_FOUND.
C4_Witness ==
    /\ C4_RepeatedDelete
    /\ Id.v \in deletedBefore
    /\ before # <<>>
    /\ Answered(NOT_FOUND, "User not found")

\* ---- C5
\* C5: an update with a parseable id that matches no row and a decodable body
\* is answered OK "User updated" when the database is reachable, and the table
\* is left as it was: no row changed, no row inserted.
C5_UpdateMissing ==
    handler = "update" /\ Id.ok /\ ~HasRow(before, Id.v) /\ Decodable(request) /\ Reachable =>
        Answered(OK_RESPONSE, "User updated") /\ users = before

C5_Witness ==
    /\ handler = "update" /\ Id.ok /\ ~HasRow(before, Id.v) /\ Decodable(request) /\ Reachable
    /\ before # <<>>
    /\ response.status = OK_RESPONSE

\* ---- C6
\* C6: a get-all against a reachable database is answered OK with exactly the
\* rows of the table, in some order; on an empty table, with the empty sequence.
C6_GetAll ==
    handler = "get_all" /\ Reachable =>
        /\ response.status = OK_RESPONSE
        /\ response.content.kind = "array"
        /\ Len(response.content.items) = Len(users)
        /\ {response.content.items[i] : i \in DOMAIN response.content.items}
              = {Entity(users[k].id, users[k].name, users[k].email) : k \in DOMAIN users}
        /\ users = <<>> => response.content = JArray(<<>>)

\* The table is empty again after rows were created and deleted.
C6_Witness ==
    /\ handler = "get_all" /\ Reachable
    /\ users = <<>> /\ deletedOk # {}
    /\ response = [status |-> OK_RESPONSE, content |-> JArray(<<>>)]

\* ---- C7
CrudHandlers == {"create", "get_one", "get_all", "update", "delete"}
DatabaseFailed == db.connect = "fail" \/ db.stmt = "fail" \/ db.reread = "fail"

\* C7 as stated: in each of the five handlers any database failure, of the
\* connection or of a statement after it, ends in a response with status
\* INTERNAL_ERROR.
C7_Claim == handler \in CrudHandlers /\ DatabaseFailed => response.status = INTERNAL_ERROR

\* ---- C8
\* C8 as stated: a POST is dispatched to create only when its path is exactly
\* /api/<s>/users; with anything after users it is routed to not-found and
\* inserts no row.
C8_Claim ==
    /\ handler = "create" =>
          /\ Method = POST
          /\ Len(Segments) = 4
          /\ Segments[1] = <<>> /\ Segments[2] = API /\ Segments[4] = USERS
    /\ Method = POST /\ Len(Segments) > 4 => handler = "not_found" /\ users = before

\* ---- C9
DistinctIds == \A i, j \in DOMAIN users : i # j => users[i].id # users[j].id

\* C9: the rows of users have pairwise distinct ids, and an update of id i
\* changes only the name and email of the row with id i: every row keeps its
\* id and every other row is left as it was.
C9_UniqueIdsAndUpdateFrame ==
    /\ DistinctIds
    /\ handler = "update" =>
          /\ Len(users) = Len(before)
          /\ \A k \in DOMAIN users :
                /\ users[k].id = before[k].id
                /\ ~(Id.ok /\ before[k].id = Id.v) => users[k] = before[k]

\* An update changed a row while the body named the id of another row.
C9_Witness ==
    /\ handler = "update" /\ users # before /\ Len(users) >= 2
    /\ "id" \in DOMAIN BodyOf(request).fields
    /\ BodyOf(request).fields.id.n # Id.v
    /\ HasRow(users, BodyOf(request).fields.id.n)

\* ---- C10
\* C10 as stated: whenever a request is answered NOT_FOUND or INTERNAL_ERROR,
\* the table after it equals the table before it.
C10_Claim == response.status \in {NOT_FOUND, INTERNAL_ERROR} => users = before

====
